---- MODULE Spec2Model ----
(***************************************************************************)
(* A model of type_list.hpp (a compile-time list of types) and of the use  *)
(* main.cpp makes of it.  A state is a translation unit under compilation: *)
(* the aliases it has bound and the template instantiation it evaluated    *)
(* last.  Types are records tagged by their kind in field k; an            *)
(* instantiation either yields a type or is ill-formed.                    *)
(***************************************************************************)
EXTENDS Integers, Sequences, FiniteSets

VARIABLES cxx20, pack, numbers_by, numbers, plus_one, plus_op, call, fold

vars == <<cxx20, pack, numbers_by, numbers, plus_one, plus_op, call, fold>>

(***************************************************************************)
(* Bounds.                                                                 *)
(***************************************************************************)
\* Longest parameter pack handed to make_t.
MaxLen == 3

(***************************************************************************)
(* The universe of types.                                                  *)
(***************************************************************************)
\* A name that denotes no type: a member that does not exist, or an alias
\* template whose substitution fails.
Undef == [k |-> "undef"]

\* A fundamental type (char, int, unsigned, long long).
Basic(n) == [k |-> "basic", n |-> n]

\* std::integral_constant<vt, v>.
IC(vt, v) == [k |-> "ic", vt |-> vt, v |-> v]

\* std::bool_constant<b>.
BoolC(b) == [k |-> "boolc", b |-> b]

\* A class whose only member is the member type `type`, naming t.
Box(t) == [k |-> "box", of |-> t]

\* type_list<>.
Empty == [k |-> "empty"]

\* type_list<First, Rest>.
Node(f, r) == [k |-> "node", first |-> f, rest |-> r]

\* An alias that has not been declared yet.
Unbound == [k |-> "unbound"]

\* An ill-formed instantiation: `at` is the depth of the recursive
\* instantiation that is ill-formed (1 for the outermost), `why` the rule.
Err(at, why) == [k |-> "error", at |-> at, why |-> why]

IsErr(r) == r.k = "error"

char == Basic("char")
int == Basic("int")
unsigned == Basic("unsigned")
longlong == Basic("long long")

one == IC("unsigned", 1)
two == IC("unsigned", 2)

\* std::is_same_v.
is_same_v(a, b) == a = b

\* T::type, the nested member type of T.
NestedType(T) ==
  CASE T.k = "ic" -> T
    [] T.k = "boolc" -> T
    [] T.k = "box" -> T.of
    [] OTHER -> Undef

\* sizeof (T) on an LP64 target; a class without data members has size 1.
SizeOf(T) ==
  CASE T = char -> 1
    [] T = int -> 4
    [] T = unsigned -> 4
    [] T = longlong -> 8
    [] OTHER -> 1

\* alignof (T) on an LP64 target.
AlignOf(T) ==
  CASE T = char -> 1
    [] T = int -> 4
    [] T = unsigned -> 4
    [] T = longlong -> 8
    [] OTHER -> 1

\* std::max.
Max(a, b) == IF a < b THEN b ELSE a

(***************************************************************************)
(* The concepts.                                                           *)
(***************************************************************************)
\* T names the member types first and rest.
HasFirstRest(T) == T.k = "node"

is_type_list(T) == HasFirstRest(T) \/ is_same_v(T, Empty)

(***************************************************************************)
(* make, size, contains, equal.                                            *)
(***************************************************************************)
RECURSIVE make(_)
make(Types) ==
  IF Types = <<>> THEN Empty
  ELSE Node(Head(Types), make(Tail(Types)))

make_t(Types) == make(Types)

\* size with the node of the last element not counted.
RECURSIVE size_last_uncounted(_, _)
size_last_uncounted(TypeList, d) ==
  IF cxx20 /\ ~is_type_list(TypeList) THEN Err(d, "constraint")
  ELSE IF TypeList = Empty \/ (HasFirstRest(TypeList) /\ TypeList.rest = Empty)
  THEN IC("size_t", 0)
  ELSE IF ~HasFirstRest(TypeList) THEN Err(d, "member")
  ELSE LET r == size_last_uncounted(TypeList.rest, d + 1)
       IN  IF IsErr(r) THEN r ELSE IC("size_t", 1 + r.v)

RECURSIVE size(_, _)
size(TypeList, d) ==
  IF cxx20 /\ ~is_type_list(TypeList) THEN Err(d, "constraint")
  ELSE IF TypeList = Empty THEN IC("size_t", 0)
  ELSE IF ~HasFirstRest(TypeList) THEN Err(d, "member")
  ELSE LET r == size(TypeList.rest, d + 1)
       IN  IF IsErr(r) THEN r ELSE IC("size_t", 1 + r.v)

size_v(TypeList) == size(TypeList, 1)

\* contains with the last element never compared.
RECURSIVE contains_last_unseen(_, _, _)
contains_last_unseen(TypeList, Element, d) ==
  IF cxx20 /\ ~is_type_list(TypeList) THEN Err(d, "constraint")
  ELSE IF TypeList = Empty \/ (HasFirstRest(TypeList) /\ TypeList.rest = Empty)
  THEN BoolC(FALSE)
  ELSE IF ~HasFirstRest(TypeList) THEN Err(d, "member")
  ELSE LET r == contains_last_unseen(TypeList.rest, Element, d + 1)
       IN  IF IsErr(r) THEN r
           ELSE BoolC(is_same_v(Element, TypeList.first) \/ r.b)

RECURSIVE contains(_, _, _)
contains(TypeList, Element, d) ==
  IF cxx20 /\ ~is_type_list(TypeList) THEN Err(d, "constraint")
  ELSE IF TypeList = Empty THEN BoolC(FALSE)
  ELSE IF ~HasFirstRest(TypeList) THEN Err(d, "member")
  ELSE LET r == contains(TypeList.rest, Element, d + 1)
       IN  IF IsErr(r) THEN r
           ELSE BoolC(is_same_v(Element, TypeList.first) \/ r.b)

contains_v(TypeList, Element) == contains(TypeList, Element, 1)

\* equal with the specialization for an exhausted second list yielding true.
RECURSIVE equal_prefix(_, _, _)
equal_prefix(TypeList1, TypeList2, d) ==
  IF cxx20 /\ ~(is_type_list(TypeList1) /\ is_type_list(TypeList2))
  THEN Err(d, "constraint")
  ELSE IF TypeList2 = Empty THEN BoolC(TRUE)
  ELSE IF TypeList1 = Empty THEN BoolC(FALSE)
  ELSE IF ~(HasFirstRest(TypeList1) /\ HasFirstRest(TypeList2))
  THEN Err(d, "member")
  ELSE LET r == equal_prefix(TypeList1.rest, TypeList2.rest, d + 1)
       IN  IF IsErr(r) THEN r
           ELSE BoolC(is_same_v(TypeList1.first, TypeList2.first) /\ r.b)

RECURSIVE equal(_, _, _)
equal(TypeList1, TypeList2, d) ==
  IF cxx20 /\ ~(is_type_list(TypeList1) /\ is_type_list(TypeList2))
  THEN Err(d, "constraint")
  ELSE IF TypeList1 = Empty /\ TypeList2 = Empty THEN BoolC(TRUE)
  ELSE IF TypeList2 = Empty THEN BoolC(FALSE)
  ELSE IF TypeList1 = Empty THEN BoolC(FALSE)
  ELSE IF ~(HasFirstRest(TypeList1) /\ HasFirstRest(TypeList2))
  THEN Err(d, "member")
  ELSE LET r == equal(TypeList1.rest, TypeList2.rest, d + 1)
       IN  IF IsErr(r) THEN r
           ELSE BoolC(is_same_v(TypeList1.first, TypeList2.first) /\ r.b)

equal_v(TypeList1, TypeList2) == equal(TypeList1, TypeList2, 1)

(***************************************************************************)
(* Unary operations and transform.                                         *)
(***************************************************************************)
\* UnaryOperation::type<T> for the operations a caller supplies: add_one,
\* type_size and type_align of main.cpp, and wrap, whose type<T> is a class
\* with the member type `type` = T.
UnaryApply(UnaryOperation, T) ==
  CASE UnaryOperation = "add_one" ->
         IF T.k = "ic" THEN IC(T.vt, T.v + 1) ELSE Undef
    [] UnaryOperation = "type_size" -> IC("size_t", SizeOf(T))
    [] UnaryOperation = "type_align" -> IC("size_t", AlignOf(T))
    [] UnaryOperation = "wrap" -> Box(T)
    [] OTHER -> Undef

is_unary_operation(UnaryOperation, TypeList) ==
  \/ HasFirstRest(TypeList) /\ UnaryApply(UnaryOperation, TypeList.first) # Undef
  \/ is_same_v(TypeList, Empty)

\* transform leaving out an element the operation has no mapping for.
RECURSIVE transform_skips_undefined(_, _, _)
transform_skips_undefined(TypeList, UnaryOperation, d) ==
  IF cxx20 /\ ~is_type_list(TypeList) THEN Err(d, "constraint")
  ELSE IF TypeList = Empty THEN Empty
  ELSE IF ~HasFirstRest(TypeList) THEN Err(d, "member")
  ELSE LET applied == UnaryApply(UnaryOperation, TypeList.first)
           r == transform_skips_undefined(TypeList.rest, UnaryOperation, d + 1)
       IN  IF IsErr(r) THEN r
           ELSE IF applied = Undef THEN r
           ELSE IF NestedType(applied) = Undef THEN Err(d, "nested type")
           ELSE Node(NestedType(applied), r)

RECURSIVE transform(_, _, _)
transform(TypeList, UnaryOperation, d) ==
  IF cxx20 /\ ~(is_type_list(TypeList) /\ is_unary_operation(UnaryOperation, TypeList))
  THEN Err(d, "constraint")
  ELSE IF TypeList = Empty THEN Empty
  ELSE IF ~HasFirstRest(TypeList) THEN Err(d, "member")
  ELSE LET applied == UnaryApply(UnaryOperation, TypeList.first)
       IN  IF applied = Undef THEN Err(d, "operation")
           ELSE IF NestedType(applied) = Undef THEN Err(d, "nested type")
           ELSE LET r == transform(TypeList.rest, UnaryOperation, d + 1)
                IN  IF IsErr(r) THEN r ELSE Node(NestedType(applied), r)

transform_t(TypeList, Operation) == transform(TypeList, Operation, 1)

(***************************************************************************)
(* Binary operations and foldl.                                            *)
(***************************************************************************)
\* BinaryOperation::type<T1, T2> for the operations a caller supplies:
\* max_value of main.cpp; size_plus, whose type<T, Sum> is
\* integral_constant<Sum::value_type, Sum::value + sizeof (T)>; and push,
\* whose type<T, List> is a class with the member type
\* `type` = type_list<T, List>.
BinaryApply(BinaryOperation, T1, T2) ==
  CASE BinaryOperation = "max_value" ->
         IF T1.k = "ic" /\ T2.k = "ic" /\ T1.vt = T2.vt
         THEN IC(T1.vt, Max(T1.v, T2.v)) ELSE Undef
    [] BinaryOperation = "size_plus" ->
         IF T2.k = "ic" THEN IC(T2.vt, T2.v + SizeOf(T1)) ELSE Undef
    [] BinaryOperation = "push" -> Box(Node(T1, T2))
    [] OTHER -> Undef

is_binary_operation(BinaryOperation, TypeList, InitialElement) ==
  \/ /\ HasFirstRest(TypeList)
     /\ BinaryApply(BinaryOperation, InitialElement, TypeList.first) # Undef
  \/ is_same_v(TypeList, Empty)

\* The instantiation foldl<TypeList, BinaryOperation, Initial> under way: tl
\* and acc are its first and third arguments, d its depth, L0 and init0 the
\* arguments of the outermost instantiation.
FoldStart(TypeList, BinaryOperation, Initial) ==
  [st |-> "run", tl |-> TypeList, op |-> BinaryOperation, acc |-> Initial,
   d |-> 1, why |-> "", L0 |-> TypeList, init0 |-> Initial]

\* foldl_step recursing with the initial value it was given, the result of
\* the operation dropped.
foldl_step_keeps_initial(f) ==
  IF cxx20 /\ ~(is_type_list(f.tl) /\ is_binary_operation(f.op, f.tl, f.acc))
  THEN [f EXCEPT !.st = "error", !.why = "constraint"]
  ELSE IF f.tl = Empty THEN [f EXCEPT !.st = "done"]
  ELSE IF ~HasFirstRest(f.tl) THEN [f EXCEPT !.st = "error", !.why = "member"]
  ELSE [f EXCEPT !.tl = f.tl.rest, !.d = f.d + 1]

\* One instantiation of foldl: it is ill-formed, or it is the specialization
\* for type_list<> and yields its initial value, or it names the
\* instantiation for the rest of the list.
foldl_step(f) ==
  IF cxx20 /\ ~(is_type_list(f.tl) /\ is_binary_operation(f.op, f.tl, f.acc))
  THEN [f EXCEPT !.st = "error", !.why = "constraint"]
  ELSE IF f.tl = Empty THEN [f EXCEPT !.st = "done"]
  ELSE IF ~HasFirstRest(f.tl) THEN [f EXCEPT !.st = "error", !.why = "member"]
  ELSE IF NestedType(f.acc) = Undef
  THEN [f EXCEPT !.st = "error", !.why = "nested type"]
  ELSE LET applied == BinaryApply(f.op, f.tl.first, NestedType(f.acc))
       IN  IF applied = Undef
           THEN [f EXCEPT !.st = "error", !.why = "operation"]
           ELSE [f EXCEPT !.tl = f.tl.rest, !.acc = applied, !.d = f.d + 1]

RECURSIVE foldl_run(_)
foldl_run(f) == IF f.st # "run" THEN f ELSE foldl_run(foldl_step(f))

\* foldl<TypeList, BinaryOperation, Initial>::type
foldl(TypeList, BinaryOperation, Initial) ==
  LET f == foldl_run(FoldStart(TypeList, BinaryOperation, Initial))
  IN  IF f.st = "done" THEN f.acc ELSE Err(f.d, f.why)

(***************************************************************************)
(* type_characteristics of main.cpp.                                       *)
(***************************************************************************)
type_characteristics(TypeList) ==
  IF cxx20 /\ ~is_type_list(TypeList) THEN Err(1, "constraint")
  ELSE LET sizes_list == transform_t(TypeList, "type_size")
           alignments_type == transform_t(TypeList, "type_align")
       IN  IF IsErr(sizes_list) THEN sizes_list
           ELSE IF IsErr(alignments_type) THEN alignments_type
           ELSE LET largest == foldl(sizes_list, "max_value", IC("size_t", 0))
                    most_aligned ==
                      foldl(alignments_type, "max_value", IC("size_t", 0))
                IN  IF IsErr(largest) THEN largest
                    ELSE IF IsErr(most_aligned) THEN most_aligned
                    ELSE [k |-> "characteristics", largest |-> largest,
                          most_aligned |-> most_aligned]

(***************************************************************************)
(* The translation unit.                                                   *)
(***************************************************************************)
\* The types a parameter pack is drawn from.
Elements == {char, longlong, one}

RECURSIVE SeqsUpTo(_, _)
SeqsUpTo(S, n) ==
  IF n = 0 THEN {<<>>}
  ELSE LET shorter == SeqsUpTo(S, n - 1)
       IN  shorter \cup {Append(p, e) : p \in shorter, e \in S}

Packs == SeqsUpTo(Elements, MaxLen)

NoCall == [fn |-> "none"]
Idle == [st |-> "idle"]

\* Compilation stops at the first ill-formed instantiation.
Failed ==
  \/ IsErr(numbers)
  \/ IsErr(plus_one)
  \/ call.fn # "none" /\ IsErr(call.out)
  \/ fold.st = "error"

\* The aliases are bound without error and no instantiation has been examined
\* yet: a behaviour follows one use of the aliases to its outcome, as every
\* static_assert of main.cpp is decided by the aliases alone.
Ready == ~Failed /\ call = NoCall /\ fold = Idle

Aliases == {numbers} \cup (IF plus_one = Unbound THEN {} ELSE {plus_one})

Init ==
  /\ cxx20 \in BOOLEAN
  /\ pack = <<>>
  /\ numbers_by = "none"
  /\ numbers = Unbound
  /\ plus_one = Unbound
  /\ plus_op = "none"
  /\ call = NoCall
  /\ fold = Idle

\* using numbers = type_list::make_t<Types...>;
Make(Types) ==
  /\ Ready
  /\ numbers = Unbound
  /\ pack' = Types
  /\ numbers' = make_t(Types)
  /\ numbers_by' = "make_t"
  /\ UNCHANGED <<cxx20, plus_one, plus_op, call, fold>>

\* type_list::size_v<L>
Size(L) ==
  /\ Ready
  /\ call' = [fn |-> "size", a |-> L, out |-> size_v(L)]
  /\ fold' = Idle
  /\ UNCHANGED <<cxx20, pack, numbers_by, numbers, plus_one, plus_op>>

\* A type written out by hand where a list is expected.
Declared == {char, one, Node(char, char), Node(one, Node(char, one))}

\* using numbers = T;
Declare(T) ==
  /\ Ready
  /\ numbers = Unbound
  /\ numbers' = T
  /\ numbers_by' = "by hand"
  /\ UNCHANGED <<cxx20, pack, plus_one, plus_op, call, fold>>

\* The types a list is searched for.
Candidates == Elements \cup {two, int}

\* type_list::contains_v<L, Element>
Contains(L, Element) ==
  /\ Ready
  /\ call' = [fn |-> "contains", a |-> L, b |-> Element,
              out |-> contains_v(L, Element)]
  /\ fold' = Idle
  /\ UNCHANGED <<cxx20, pack, numbers_by, numbers, plus_one, plus_op>>

\* The lists written inline as the other argument of equal_v.
OtherElements == {char, one}
Inline == {make_t(p) : p \in SeqsUpTo(OtherElements, MaxLen)}

\* type_list::equal_v<A, B>
Equal(A, B) ==
  /\ Ready
  /\ call' = [fn |-> "equal", a |-> A, b |-> B, out |-> equal_v(A, B)]
  /\ fold' = Idle
  /\ UNCHANGED <<cxx20, pack, numbers_by, numbers, plus_one, plus_op>>

UnaryOps == {"add_one", "type_size", "type_align", "wrap"}

\* using plus_one = type_list::transform_t<numbers, Operation>;
Transform(Operation) ==
  /\ Ready
  /\ numbers # Unbound
  /\ plus_one = Unbound
  /\ plus_one' = transform_t(numbers, Operation)
  /\ plus_op' = Operation
  /\ call' = NoCall
  /\ fold' = Idle
  /\ UNCHANGED <<cxx20, pack, numbers_by, numbers>>

BinaryOps == {"max_value", "size_plus", "push"}

\* The initial values handed to foldl.
Inits == {IC("size_t", 0), Box(Empty), Empty}

\* type_list::foldl<L, Operation, Initial>::type is named ...
FoldlBegin(L, Operation, Initial) ==
  /\ Ready
  /\ fold' = FoldStart(L, Operation, Initial)
  /\ call' = NoCall
  /\ UNCHANGED <<cxx20, pack, numbers_by, numbers, plus_one, plus_op>>

\* ... and instantiated, one recursive instantiation at a time.
FoldlStep ==
  /\ fold.st = "run"
  /\ fold' = foldl_step(fold)
  /\ UNCHANGED <<cxx20, pack, numbers_by, numbers, plus_one, plus_op, call>>

\* type_characteristics<L>::largest and ::most_aligned
Characteristics(L) ==
  /\ Ready
  /\ call' = [fn |-> "type_characteristics", a |-> L,
              out |-> type_characteristics(L)]
  /\ fold' = Idle
  /\ UNCHANGED <<cxx20, pack, numbers_by, numbers, plus_one, plus_op>>

ShowTypes == <<char, longlong, int, unsigned>>

show_type_characteristics ==
  /\ Ready
  /\ LET types == make_t(ShowTypes)
     IN  call' = [fn |-> "show_type_characteristics", a |-> types,
                  out |-> type_characteristics(types)]
  /\ fold' = Idle
  /\ UNCHANGED <<cxx20, pack, numbers_by, numbers, plus_one, plus_op>>

Next ==
  \/ \E Types \in Packs : Make(Types)
  \/ \E T \in Declared : Declare(T)
  \/ \E Operation \in UnaryOps : Transform(Operation)
  \/ \E L \in Aliases : numbers # Unbound /\ Size(L)
  \/ \E L \in Aliases, Element \in Candidates :
        numbers # Unbound /\ Contains(L, Element)
  \/ \E A \in Aliases, B \in Aliases \cup Inline :
        numbers # Unbound /\ (Equal(A, B) \/ Equal(B, A))
  \/ \E L \in Aliases, Operation \in BinaryOps, Initial \in Inits :
        numbers # Unbound /\ FoldlBegin(L, Operation, Initial)
  \/ FoldlStep
  \/ \E L \in Aliases : numbers # Unbound /\ Characteristics(L)
  \/ show_type_characteristics

Spec == Init /\ [][Next]_vars

(***************************************************************************)
(* What the properties below speak of.                                     *)
(***************************************************************************)
\* L is type_list<> or a chain of nodes that ends in type_list<>.
RECURSIVE IsValidList(_)
IsValidList(L) ==
  \/ L = Empty
  \/ L.k = "node" /\ IsValidList(L.rest)

\* The element types of a chain of nodes, first to last.
RECURSIVE Elems(_)
Elems(L) == IF L.k = "node" THEN <<L.first>> \o Elems(L.rest) ELSE <<>>

\* The greatest member of a non-empty set of numbers.
MaxOf(S) == CHOOSE m \in S : \A x \in S : x <= m

(***************************************************************************)
(* C5: for every pack T1..Tn, repeated types allowed, make_t builds one    *)
(* node per argument, in order, ended by type_list<>, and size_v of that   *)
(* list is n; size_v of make_t<> is 0.                                     *)
(***************************************************************************)
C5_SizeOfMake ==
  numbers_by = "make_t" =>
    /\ IsValidList(numbers)
    /\ Elems(numbers) = pack
    /\ pack = <<>> => numbers = Empty
    /\ call.fn = "size" /\ call.a = numbers =>
         call.out = IC("size_t", Len(pack))

C5_Witness ==
  /\ numbers_by = "make_t"
  /\ Len(pack) >= 3
  /\ pack[1] = pack[3]
  /\ call.fn = "size"
  /\ call.a = numbers
  /\ call.out = IC("size_t", Len(pack))

(***************************************************************************)
(* C4: contains_v<L, X> is true exactly when X is identical to an element  *)
(* of L, at whatever position; it is false for type_list<>.                *)
(***************************************************************************)
C4_ContainsIffMember ==
  call.fn = "contains" /\ IsValidList(call.a) =>
    LET es == Elems(call.a)
    IN  /\ call.out = BoolC(\E i \in 1..Len(es) : es[i] = call.b)
        /\ call.a = Empty => call.out = BoolC(FALSE)
        /\ numbers_by = "make_t" /\ call.a = numbers =>
             call.out = BoolC(\E i \in 1..Len(pack) : pack[i] = call.b)

C4_Witness ==
  /\ call.fn = "contains"
  /\ numbers_by = "make_t"
  /\ call.a = numbers
  /\ Len(pack) >= 3
  /\ pack[Len(pack)] = call.b
  /\ \A i \in 1..(Len(pack) - 1) : pack[i] # call.b
  /\ call.out = BoolC(TRUE)

(***************************************************************************)
(* C3: equal_v<A, B> is true exactly when A and B have the same length and *)
(* identical elements at every position; so it is true of a list and       *)
(* itself, false when one list is a strict prefix of the other, and        *)
(* equal_v<type_list<>, B> is true only for B = type_list<>.               *)
(***************************************************************************)
C3_EqualIffSame ==
  call.fn = "equal" /\ IsValidList(call.a) /\ IsValidList(call.b) =>
    LET ea == Elems(call.a)
        eb == Elems(call.b)
    IN  /\ call.out = BoolC(/\ Len(ea) = Len(eb)
                            /\ \A i \in 1..Len(ea) : ea[i] = eb[i])
        /\ call.a = call.b => call.out = BoolC(TRUE)
        /\ Len(ea) # Len(eb) => call.out = BoolC(FALSE)
        /\ call.a = Empty => call.out = BoolC(call.b = Empty)

C3_Witness ==
  /\ call.fn = "equal"
  /\ IsValidList(call.a)
  /\ IsValidList(call.b)
  /\ Len(Elems(call.a)) = 3
  /\ Len(Elems(call.b)) = 2
  /\ \A i \in 1..2 : Elems(call.a)[i] = Elems(call.b)[i]
  /\ call.out = BoolC(FALSE)

(***************************************************************************)
(* C9: for every list L of types, the sizes (alignments) of its elements   *)
(* folded with max_value from the constant 0 give the constant of the      *)
(* largest size (alignment) among the elements, and the constant 0 for     *)
(* type_list<>; for char, long long, int, unsigned they give the size and  *)
(* the alignment of long long.                                             *)
(***************************************************************************)
C9_LargestMeasure ==
  call.fn \in {"type_characteristics", "show_type_characteristics"}
    /\ IsValidList(call.a) =>
    LET es == Elems(call.a)
    IN  /\ call.out.k = "characteristics"
        /\ call.out.largest =
             IC("size_t", MaxOf({0} \cup {SizeOf(es[i]) : i \in 1..Len(es)}))
        /\ call.out.most_aligned =
             IC("size_t", MaxOf({0} \cup {AlignOf(es[i]) : i \in 1..Len(es)}))
        /\ call.a = Empty => call.out.largest = IC("size_t", 0)
        /\ call.fn = "show_type_characteristics" =>
             /\ call.out.largest = IC("size_t", SizeOf(longlong))
             /\ call.out.most_aligned = IC("size_t", AlignOf(longlong))

C9_Witness ==
  /\ call.fn = "type_characteristics"
  /\ IsValidList(call.a)
  /\ Len(Elems(call.a)) = 3
  /\ Elems(call.a)[2] = longlong
  /\ Elems(call.a)[3] = char
  /\ call.out.k = "characteristics"
  /\ call.out.largest = IC("size_t", 8)
(***************************************************************************)
(* C7: when the operation has no mapping for an element that transform or  *)
(* foldl applies it to, at the first position or a later one, the          *)
(* instantiation is ill-formed: no result is produced with the element     *)
(* skipped or left as it was, and it is the recursive instantiation that   *)
(* applies the operation to that element which is ill-formed.              *)
(***************************************************************************)
\* The accumulators a binary operation may be handed.
Accumulators == Inits \cup {IC("unsigned", 0)}

\* The binary operation maps the element T with no accumulator at all.
NoMapping(BinaryOperation, T) ==
  \A a \in Accumulators : BinaryApply(BinaryOperation, T, a) = Undef

C7_TransformUndefined ==
  plus_one # Unbound =>
    LET es == Elems(numbers)
        applied(i) == UnaryApply(plus_op, es[i])
    IN  /\ (\E i \in 1..Len(es) : applied(i) = Undef) => IsErr(plus_one)
        /\ \A i \in 1..Len(es) :
             /\ applied(i) = Undef
             /\ \A j \in 1..(i - 1) :
                  applied(j) # Undef /\ NestedType(applied(j)) # Undef
             => IsErr(plus_one) /\ plus_one.at = i

C7_FoldlNeverSkips ==
  fold.st = "done" =>
    \A i \in 1..Len(Elems(fold.L0)) : ~NoMapping(fold.op, Elems(fold.L0)[i])

C7_FoldlStepUndefined ==
  /\ fold.st = "run"
  /\ HasFirstRest(fold.tl)
  /\ \/ NoMapping(fold.op, fold.tl.first)
     \/ /\ NestedType(fold.acc) # Undef
        /\ BinaryApply(fold.op, fold.tl.first, NestedType(fold.acc)) = Undef
  => /\ fold'.st = "error"
     /\ fold'.d = fold.d
     /\ fold'.tl = fold.tl

C1_TransformMapsEach ==
  /\ plus_one # Unbound
  /\ IsValidList(numbers)
  /\ \A i \in 1..Len(Elems(numbers)) :
       UnaryApply(plus_op, Elems(numbers)[i]) # Undef
  => /\ IsValidList(plus_one)
     /\ Len(Elems(plus_one)) = Len(Elems(numbers))
     /\ \A i \in 1..Len(Elems(numbers)) :
          Elems(plus_one)[i] = UnaryApply(plus_op, Elems(numbers)[i])
     /\ numbers = Empty => plus_one = Empty

(***************************************************************************)
(* C8: when the unary operation, defined on all elements of L, maps at     *)
(* least one element of L to a different type, equal_v<L, transform_t<L,   *)
(* Op>> is false.                                                          *)
(***************************************************************************)
C8_TransformedDiffers ==
  /\ call.fn = "equal"
  /\ plus_one # Unbound
  /\ call.a = numbers
  /\ call.b = plus_one
  /\ IsValidList(numbers)
  /\ \A i \in 1..Len(Elems(numbers)) :
       UnaryApply(plus_op, Elems(numbers)[i]) # Undef
  /\ \E i \in 1..Len(Elems(numbers)) :
       UnaryApply(plus_op, Elems(numbers)[i]) # Elems(numbers)[i]
  => call.out = BoolC(FALSE)

(***************************************************************************)
(* C2: foldl<make_t<a1..an>, Op, Init>::type is                            *)
(* Op(an, ... Op(a2, Op(a1, Init)) ...): the element is the first argument *)
(* and the accumulator of the step before, Init at the first step, the     *)
(* second; for n = 0 it is Init.                                           *)
(***************************************************************************)
\* Op(es[n], ... Op(es[2], Op(es[1], Initial)) ...), undefined when one of
\* the applications is.
RECURSIVE LeftToRight(_, _, _)
LeftToRight(es, BinaryOperation, Initial) ==
  IF es = <<>> THEN Initial
  ELSE LET before ==
             LeftToRight(SubSeq(es, 1, Len(es) - 1), BinaryOperation, Initial)
       IN  IF before = Undef THEN Undef
           ELSE BinaryApply(BinaryOperation, es[Len(es)], before)

\* C2: whenever that nest of applications is defined, foldl yields it.
C2_FoldLeftLaw ==
  /\ fold.st \in {"done", "error"}
  /\ IsValidList(fold.L0)
  /\ LeftToRight(Elems(fold.L0), fold.op, fold.init0) # Undef
  => /\ fold.st = "done"
     /\ fold.acc = LeftToRight(Elems(fold.L0), fold.op, fold.init0)

(***************************************************************************)
(* C10: where the concepts are compiled, foldl's requirement on its        *)
(* operation tests the operation on the arguments foldl applies it to: an  *)
(* instantiation for a non-empty list is rejected by the requirement       *)
(* exactly when the operation is undefined for (first element,             *)
(* accumulator).                                                           *)
(***************************************************************************)
C10_AdmissionMatchesApplication ==
  /\ cxx20
  /\ fold.st = "error"
  /\ HasFirstRest(fold.tl)
  => (fold.why = "constraint"
        <=> BinaryApply(fold.op, fold.tl.first, fold.acc) = Undef)

(***************************************************************************)
(* C6: in every build, size, contains, equal (either argument), transform  *)
(* and foldl are ill-formed, and yield no result, when the list argument   *)
(* is neither type_list<> nor a chain of nodes ending in type_list<>.      *)
(***************************************************************************)
C6_MalformedListIsError ==
  /\ call.fn \in {"size", "contains"} /\ ~IsValidList(call.a) =>
       IsErr(call.out)
  /\ call.fn = "equal" /\ ~(IsValidList(call.a) /\ IsValidList(call.b)) =>
       IsErr(call.out)
  /\ plus_one # Unbound /\ ~IsValidList(numbers) => IsErr(plus_one)
  /\ fold.st = "done" => IsValidList(fold.L0)

====
